---- MODULE Spec2Model ----
(***************************************************************************)
(* AGView: the OBS wrapper of the Electron worker (src/src/worker/obs.ts), *)
(* the table of supported file types (supportedFilesFilters) and the       *)
(* remote-control HTTP gateway (MobileService).                            *)
(*                                                                         *)
(* The two classes live in different processes and share no state, so each *)
(* has its own next-state relation over the module's variables:            *)
(*   Spec          the OBS wrapper: construction, addFile, timers, shutdown*)
(*   LiveSpec      Spec with the event loop's fairness for timers          *)
(*   SpecDispatch  addFile over the full set of sample paths               *)
(*   SpecSettings  setSetting applied to arbitrary arguments               *)
(*   SpecAlign     alignItem applied to arbitrary canvases and items       *)
(*   SpecGateway   the /connect and /disconnect handlers                   *)
(*   SpecShutdown  shutdown, with the projector window and engine faults   *)
(*   SpecServer    MobileService.init, the body middleware and the routes  *)
(***************************************************************************)
EXTENDS Integers, Sequences, FiniteSets, TLC

VARIABLES
    \* ---- MobileService
    connectedMobiles,   \* the in-memory list of connected devices
    requests,           \* history: the requests handled so far, in order
    expressRunning,     \* MobileService.expressRunning
    http,               \* what init has asked of express and the network
    opens,              \* the showService.open promises of /openRecentShow
    \* ---- OBS wrapper
    pc,                 \* "new" | "running" (constructor returned) | "failed" (it threw)
    obsInitialized,     \* OBS.obsInitialized
    engine,             \* what the native engine has been asked to do
    thrown,             \* message of the Error the constructor threw, or NoError
    statsTimer,         \* the 1 s performance-statistics interval is running
    previewWindow,      \* OBS.previewWindow is set (the projector window is open)
    shutdownCalls,      \* history: the shutdown calls made by the owner, in order
    obsSettings,        \* engine settings: category -> subcategories -> parameters
    saveCalls,          \* history: OBS_settings_saveSettings calls, in order
    settingsCall,       \* history: the last direct setSetting call
    canvas,             \* settingsStore "width" and "height"
    sceneItem,          \* the scene item alignItem works on (the logo)
    alignCall,          \* history: the last alignItem call
    sources,            \* engine inputs created through InputFactory.create
    scenes,             \* engine scenes created through SceneFactory.create
    timers,             \* pending setTimeout callbacks, in firing order
    started,            \* history: transition.start calls, in order
    addCalls            \* history: the addFile calls made so far, in order

vars == <<connectedMobiles, requests, expressRunning, http, opens, pc, obsInitialized, engine, thrown,
          statsTimer, previewWindow, shutdownCalls, obsSettings, saveCalls, settingsCall, canvas, sceneItem,
          alignCall, sources, scenes, timers, started, addCalls>>

serverVars == <<expressRunning, http, opens>>
gatewayVars == <<connectedMobiles, requests, serverVars>>
lifecycleVars == <<pc, obsInitialized, engine, thrown, statsTimer, previewWindow,
                   shutdownCalls>>
settingsVars == <<obsSettings, saveCalls, settingsCall>>
alignVars == <<canvas, sceneItem, alignCall>>
dispatchVars == <<sources, scenes, timers, started, addCalls>>

(***************************************************************************)
(* JavaScript values.  Every value is a tagged record, so that values of   *)
(* different JavaScript types can be compared.                             *)
(***************************************************************************)
Undefined == [t |-> "undefined"]
Null == [t |-> "null"]
JsString(s) == [t |-> "string", s |-> s]
JsNumber(n) == [t |-> "number", n |-> n]

\* x.field throws a TypeError exactly when x is undefined or null
Dereferencable(x) == x # Undefined /\ x # Null

\* ---- bounds
MaxRequests == 3

(***************************************************************************)
(* MobileService                                                           *)
(***************************************************************************)
UUIDs == {"A", "B"}
Models == {"m1", "m2"}

\* A device record as a phone sends it; of its nine string fields the model
\* keeps uuid and model (model stands for the eight fields that are no key).
\* A device object with no uuid property has uuid undefined.
Devices ==
    {[t |-> "object", uuid |-> JsString(u), model |-> m] : u \in UUIDs, m \in Models}
    \cup {[t |-> "object", uuid |-> Undefined, model |-> "m1"]}

\* req.jsonBody as the body middleware leaves it: null for an empty body,
\* else the parsed object; a property the object lacks reads as undefined.
NullBody == Null
ConnectBodies ==
    {NullBody} \cup
    {[t |-> "object", device |-> d, deviceId |-> Undefined] :
        d \in Devices \cup {Undefined, Null}}
DisconnectBodies ==
    {NullBody} \cup
    {[t |-> "object", device |-> Undefined, deviceId |-> i] :
        i \in {JsString(u) : u \in UUIDs \cup {"C"}} \cup {Undefined}}

\* The text of a request body: empty, a JSON text (kept as the value it
\* stands for), or text that is no JSON.
EmptyText == [t |-> "empty"]
MalformedText == [t |-> "malformed"]
JsonText(value) == [t |-> "json", value |-> value]
TextOf(body) == IF body = NullBody THEN EmptyText ELSE JsonText(body)

\* req.jsonBody = JSON.parse(data || "null"); next(): an empty body parses to
\* null; JSON.parse throws a SyntaxError on text that is no JSON, inside the
\* "end" listener, so jsonBody stays unset and next() is not called.
bodyParser(data) ==
    IF data = MalformedText THEN [threw |-> TRUE, jsonBody |-> Undefined]
    ELSE IF data = EmptyText THEN [threw |-> FALSE, jsonBody |-> Null]
    ELSE [threw |-> FALSE, jsonBody |-> data.value]

\* connectedMobiles.push({device: req.jsonBody.device}) inside zone.run:
\* reading .device of a null body throws before anything is pushed.
ConnectThrows(list, body) == ~Dereferencable(body)

ConnectPushFront(list, body) == <<[device |-> body.device]>> \o list

ConnectPush(list, body) == Append(list, [device |-> body.device])

\* The filter callback (d) => d.device.uuid !== req.jsonBody.deviceId runs once
\* per entry, left operand first: it throws on an entry whose device is
\* undefined or null, and on any entry when the body is null.  On an empty
\* list it never runs.
DisconnectThrows(list, body) ==
    \E i \in 1..Len(list) :
        ~Dereferencable(list[i].device) \/ ~Dereferencable(body)

DisconnectKeepsMatching(list, body) ==
    SelectSeq(list, LAMBDA d : d.device.uuid = body.deviceId)

DisconnectFilter(list, body) ==
    SelectSeq(list, LAMBDA d : d.device.uuid # body.deviceId)

\* r.post("/connect", ...)
Connect(body) ==
    /\ Len(requests) < MaxRequests
    /\ expressRunning
    /\ IF ConnectThrows(connectedMobiles, body)
       THEN /\ UNCHANGED connectedMobiles
            /\ requests' = Append(requests,
                   [route |-> "/connect", data |-> TextOf(body), reached |-> TRUE,
                    body |-> body, before |-> connectedMobiles,
                    after |-> connectedMobiles, threw |-> TRUE, success |-> FALSE])
       ELSE LET list == ConnectPush(connectedMobiles, body)
            IN  /\ connectedMobiles' = list
                /\ requests' = Append(requests,
                       [route |-> "/connect", data |-> TextOf(body), reached |-> TRUE,
                        body |-> body, before |-> connectedMobiles,
                        after |-> list, threw |-> FALSE, success |-> TRUE])
    /\ UNCHANGED <<serverVars, lifecycleVars, settingsVars, alignVars, dispatchVars>>

\* r.post("/disconnect", ...)
Disconnect(body) ==
    /\ Len(requests) < MaxRequests
    /\ expressRunning
    /\ IF DisconnectThrows(connectedMobiles, body)
       THEN /\ UNCHANGED connectedMobiles
            /\ requests' = Append(requests,
                   [route |-> "/disconnect", data |-> TextOf(body), reached |-> TRUE,
                    body |-> body, before |-> connectedMobiles,
                    after |-> connectedMobiles, threw |-> TRUE, success |-> FALSE])
       ELSE LET list == DisconnectFilter(connectedMobiles, body)
            IN  /\ connectedMobiles' = list
                /\ requests' = Append(requests,
                       [route |-> "/disconnect", data |-> TextOf(body), reached |-> TRUE,
                        body |-> body, before |-> connectedMobiles,
                        after |-> list, threw |-> FALSE, success |-> TRUE])
    /\ UNCHANGED <<serverVars, lifecycleVars, settingsVars, alignVars, dispatchVars>>

HandleConnect == \E body \in ConnectBodies : Connect(body)
HandleDisconnect == \E body \in DisconnectBodies : Disconnect(body)

(***************************************************************************)
(* MobileService as a server: init and its "listening" callback, the body  *)
(* middleware in front of every route, and the other routes.               *)
(***************************************************************************)
\* ---- bounds
MaxInits == 2

\* express() and listen(4574) calls made, "listening" callbacks not yet run,
\* and listen calls refused because the port was already taken
NoServer == [inits |-> 0, servers |-> 0, listens |-> 0, callbacks |-> 0, refused |-> 0]
ServerUp == [inits |-> 1, servers |-> 1, listens |-> 1, callbacks |-> 0, refused |-> 0]

\* this.server = express(); ...; this.server.listen(4574, callback): the first
\* listen takes the port and will call back; a later one finds it taken
startServer(h) ==
    [h EXCEPT !.servers = @ + 1,
              !.listens = @ + 1,
              !.callbacks = IF h.listens = 0 THEN @ + 1 ELSE @,
              !.refused = IF h.listens = 0 THEN @ ELSE @ + 1]

\* MobileService.init()
init ==
    /\ http.inits < MaxInits
    /\ http' = IF expressRunning
               THEN [http EXCEPT !.inits = @ + 1]
               ELSE [startServer(http) EXCEPT !.inits = @ + 1]
    /\ UNCHANGED <<connectedMobiles, requests, expressRunning, opens,
                   lifecycleVars, settingsVars, alignVars, dispatchVars>>

\* the callback of listen: this.expressRunning = true
listening ==
    /\ http.callbacks > 0
    /\ http' = [http EXCEPT !.callbacks = @ - 1]
    /\ expressRunning' = TRUE
    /\ UNCHANGED <<connectedMobiles, requests, opens,
                   lifecycleVars, settingsVars, alignVars, dispatchVars>>

\* a request whose body JSON.parse rejects: the middleware throws, next() is
\* not called, and no handler runs
ParseFails(route, data) ==
    /\ Len(requests) < MaxRequests
    /\ expressRunning
    /\ requests' = Append(requests,
           [route |-> route, data |-> data, reached |-> FALSE,
            body |-> bodyParser(data).jsonBody, before |-> connectedMobiles,
            after |-> connectedMobiles, threw |-> FALSE, success |-> FALSE])
    /\ UNCHANGED <<connectedMobiles, serverVars,
                   lifecycleVars, settingsVars, alignVars, dispatchVars>>

\* r.get("/recentShows", ...) and r.get("/slides", ...): answer with data of
\* the collaborators, never with {success: true}
Get(route, body) ==
    /\ Len(requests) < MaxRequests
    /\ expressRunning
    /\ requests' = Append(requests,
           [route |-> route, data |-> TextOf(body), reached |-> TRUE,
            body |-> body, before |-> connectedMobiles,
            after |-> connectedMobiles, threw |-> FALSE, success |-> FALSE])
    /\ UNCHANGED <<connectedMobiles, serverVars,
                   lifecycleVars, settingsVars, alignVars, dispatchVars>>

\* r.post("/openRecentShow", async ...) up to its await: reading .show of a
\* null body throws (the async function's promise is rejected); otherwise
\* showService.open(show) is called and the handler waits for its promise
OpenRecentShow(body) ==
    /\ Len(requests) < MaxRequests
    /\ expressRunning
    /\ requests' = Append(requests,
           [route |-> "/openRecentShow", data |-> TextOf(body), reached |-> TRUE,
            body |-> body, before |-> connectedMobiles,
            after |-> connectedMobiles, threw |-> ~Dereferencable(body),
            success |-> FALSE])
    /\ opens' = IF Dereferencable(body)
                THEN Append(opens, [request |-> Len(requests) + 1, show |-> body.show,
                                    state |-> "pending", responded |-> FALSE])
                ELSE opens
    /\ UNCHANGED <<connectedMobiles, expressRunning, http,
                   lifecycleVars, settingsVars, alignVars, dispatchVars>>

afterAwaitAlwaysResponds(open, outcome) ==
    [open EXCEPT !.state = outcome, !.responded = TRUE]

\* the rest of the handler: res.send({success: true}) runs when the promise
\* of showService.open is fulfilled and is skipped when it is rejected
afterAwait(open, outcome) ==
    [open EXCEPT !.state = outcome, !.responded = (outcome = "fulfilled")]

\* the promise of showService.open settles
OpenSettles(i, outcome) ==
    /\ opens[i].state = "pending"
    /\ opens' = [opens EXCEPT ![i] = afterAwait(opens[i], outcome)]
    /\ UNCHANGED <<connectedMobiles, requests, expressRunning, http,
                   lifecycleVars, settingsVars, alignVars, dispatchVars>>

\* the middleware, then the router
Serve(route, data) ==
    LET parsed == bodyParser(data)
    IN  IF parsed.threw THEN ParseFails(route, data)
        ELSE CASE route = "/connect" -> Connect(parsed.jsonBody)
               [] route = "/disconnect" -> Disconnect(parsed.jsonBody)
               [] route = "/openRecentShow" -> OpenRecentShow(parsed.jsonBody)
               [] OTHER -> Get(route, parsed.jsonBody)

\* the request bodies sent to the server
ConnectTexts ==
    {EmptyText, MalformedText}
    \cup {JsonText([t |-> "object", device |-> d, deviceId |-> Undefined]) :
            d \in {[t |-> "object", uuid |-> JsString("A"), model |-> "m1"], Undefined}}
DisconnectTexts ==
    {EmptyText, MalformedText}
    \cup {JsonText([t |-> "object", device |-> Undefined, deviceId |-> i]) :
            i \in {JsString("A"), Undefined}}
OpenTexts ==
    {EmptyText, MalformedText, JsonText([t |-> "object", show |-> JsString("show1")])}
GetRoutes == {"/recentShows", "/slides"}
GetTexts == {EmptyText, MalformedText}

PostConnect == \E data \in ConnectTexts : Serve("/connect", data)
PostDisconnect == \E data \in DisconnectTexts : Serve("/disconnect", data)
PostOpenRecentShow == \E data \in OpenTexts : Serve("/openRecentShow", data)
GetData == \E route \in GetRoutes, data \in GetTexts : Serve(route, data)
OpenFulfilled == \E i \in 1..Len(opens) : OpenSettles(i, "fulfilled")
OpenRejected == \E i \in 1..Len(opens) : OpenSettles(i, "rejected")

(***************************************************************************)
(* IEEE-754 binary64 arithmetic, as far as alignItem needs it: the         *)
(* quotient of two positive integers, its product with 100, and the floor  *)
(* of that.  A positive double is [exp, mant]: mant is its 53-bit          *)
(* significand, most significant bit first (always 1), and its value is    *)
(* 0.mant * 2^exp.  Every step rounds to nearest, ties to even.            *)
(***************************************************************************)
Precision == 53

RECURSIVE Pow2(_)
Pow2(n) == IF n = 0 THEN 1 ELSE 2 * Pow2(n - 1)

\* the binary digits of n, most significant first (none for 0)
RECURSIVE NatBits(_)
NatBits(n) == IF n = 0 THEN <<>> ELSE Append(NatBits(n \div 2), n % 2)

\* the binary digits of n < 2^width, padded to width digits
NatToBits(n, width) == [i \in 1..width |-> (n \div Pow2(width - i)) % 2]

RECURSIVE BitsNat(_)
BitsNat(bits) ==
    IF bits = <<>> THEN 0
    ELSE 2 * BitsNat(SubSeq(bits, 1, Len(bits) - 1)) + bits[Len(bits)]

\* Long division of r/b (0 <= r < b), eight binary digits at a step: the first
\* n base-256 digits of the fraction, and the remainder left after them.
RECURSIVE FracChunks(_, _, _)
FracChunks(r, b, n) ==
    IF n = 0 THEN <<>>
    ELSE <<(256 * r) \div b>> \o FracChunks((256 * r) % b, b, n - 1)

RECURSIVE FracRem(_, _, _)
FracRem(r, b, n) == IF n = 0 THEN r ELSE FracRem((256 * r) % b, b, n - 1)

FracBits(r, b, n) ==
    LET chunks == FracChunks(r, b, n)
    IN  [i \in 1..(8 * n) |-> (chunks[((i - 1) \div 8) + 1] \div Pow2(7 - ((i - 1) % 8))) % 2]

\* bits + 1, same length; all ones wrap to all zeros
Increment(bits) ==
    LET zeros == {i \in 1..Len(bits) : bits[i] = 0}
    IN  IF zeros = {} THEN [i \in 1..Len(bits) |-> 0]
        ELSE LET p == CHOOSE i \in zeros : \A j \in zeros : j <= i
             IN  [i \in 1..Len(bits) |-> IF i < p THEN bits[i] ELSE IF i = p THEN 1 ELSE 0]

\* Round 0.bits * 2^exp (bits longer than the precision, leading bit 1; sticky
\* says that nonzero digits follow bits) to a double.
RoundToDouble(exp, bits, sticky) ==
    LET mant == SubSeq(bits, 1, Precision)
        guard == bits[Precision + 1]
        rest == \E i \in (Precision + 2)..Len(bits) : bits[i] = 1
        up == guard = 1 /\ (sticky \/ rest \/ mant[Precision] = 1)
        inc == Increment(mant)
    IN  IF ~up THEN [exp |-> exp, mant |-> mant]
        ELSE IF inc[1] = 1 THEN [exp |-> exp, mant |-> inc]
        ELSE [exp |-> exp + 1, mant |-> [inc EXCEPT ![1] = 1]]

\* the number of leading zero bits of the binary fraction a/b, 0 < a < b
RECURSIVE LeadingZeros(_, _)
LeadingZeros(a, b) == IF 2 * a >= b THEN 0 ELSE 1 + LeadingZeros(2 * a, b)

\* the double a / b, for positive integers a and b
DoubleDiv(a, b) ==
    LET int == NatBits(a \div b)
        r == a % b
    IN  IF int # <<>>
        THEN RoundToDouble(Len(int), int \o FracBits(r, b, 8), FracRem(r, b, 8) # 0)
        ELSE LET z == LeadingZeros(a, b)
                 r0 == a * Pow2(z)
             IN  RoundToDouble(-z, FracBits(r0, b, 8), FracRem(r0, b, 8) # 0)

\* The exact product of a significand with a small natural c, as binary digits
\* without leading zeros: the significand is cut into five 11-bit limbs (two
\* zero bits in front) and the carries run from the lowest limb up.
MulSmall(mant, c) ==
    LET padded == <<0, 0>> \o mant
        limb(k) == BitsNat(SubSeq(padded, 11 * (k - 1) + 1, 11 * k))
        p5 == limb(5) * c
        p4 == limb(4) * c + (p5 \div 2048)
        p3 == limb(3) * c + (p4 \div 2048)
        p2 == limb(2) * c + (p3 \div 2048)
        p1 == limb(1) * c + (p2 \div 2048)
    IN  NatBits(p1) \o NatToBits(p2 % 2048, 11) \o NatToBits(p3 % 2048, 11)
                    \o NatToBits(p4 % 2048, 11) \o NatToBits(p5 % 2048, 11)

\* the double d * c, for a small natural c >= 2
DoubleMul(d, c) ==
    LET prod == MulSmall(d.mant, c)
    IN  RoundToDouble(d.exp - Precision + Len(prod), prod, FALSE)

\* Math.floor of a positive double below 2^53
DoubleFloor(d) == IF d.exp <= 0 THEN 0 ELSE BitsNat(SubSeq(d.mant, 1, d.exp))

\* Math.floor((smallestSide / width) * 100)
FloorScaleTimes100(smallestSide, width) ==
    DoubleFloor(DoubleMul(DoubleDiv(smallestSide, width), 100))

(***************************************************************************)
(* OBS.alignItem.  A scale is kept in hundredths: Math.floor(...) / 100 is *)
(* the double nearest to k/100 for the integer k the floor returned, and k *)
(* is what the model stores.  A position is kept in two-hundredths of a    *)
(* pixel: (side - size * k/100) / 2 = (100 * side - size * k) / 200; the   *)
(* last-place rounding of that product and difference is not modelled.     *)
(***************************************************************************)
\* ---- bounds
MaxSide == 23
MaxSkew == 1
MaxItemWidth == 5
MaxItemHeight == 3

NoCall == [done |-> FALSE]

\* const smallestSide = width < height ? width : height
smallestSide(width, height) == IF width < height THEN width ELSE height

\* const scale = Math.floor((smallestSide / sceneItem.source.width) * 100) / 100
alignScale(item, width, height) ==
    FloorScaleTimes100(smallestSide(width, height), item.source.width)

alignPositionAxesSwapped(item, width, height, scale) ==
    IF width < height
    THEN [x |-> 100 * height - item.source.height * scale, y |-> 0]
    ELSE IF width > height
    THEN [x |-> 0, y |-> 100 * width - item.source.width * scale]
    ELSE item.position

\* the if / else-if that sets sceneItem.position
alignPosition(item, width, height, scale) ==
    IF width < height
    THEN [x |-> 0, y |-> 100 * height - item.source.height * scale]
    ELSE IF width > height
    THEN [x |-> 100 * width - item.source.width * scale, y |-> 0]
    ELSE item.position

alignItemResettingPosition(item, width, height) ==
    LET scale == alignScale(item, width, height)
    IN  [item EXCEPT !.scale = [x |-> scale, y |-> scale],
                     !.position = IF width = height THEN [x |-> 0, y |-> 0]
                                  ELSE alignPosition(item, width, height, scale)]

alignItem(item, width, height) ==
    LET scale == alignScale(item, width, height)
    IN  [item EXCEPT !.scale = [x |-> scale, y |-> scale],
                     !.position = alignPosition(item, width, height, scale)]

\* A freshly added scene item: scale 1, at the position the engine gave it.
NewItem(w, h, pos) ==
    [source |-> [width |-> w, height |-> h], scale |-> [x |-> 100, y |-> 100],
     position |-> pos]

Sides == 1..MaxSide
Canvases ==
    {[width |-> c[1], height |-> c[2]] :
        c \in {d \in Sides \X Sides : d[1] - d[2] <= MaxSkew /\ d[2] - d[1] <= MaxSkew}}
    \cup {[width |-> 1920, height |-> 1080], [width |-> 1080, height |-> 1920]}
ItemWidths == (1..MaxItemWidth) \cup {500}
ItemHeights == (1..MaxItemHeight) \cup {500}
PriorPositions == {[x |-> 0, y |-> 0], [x |-> 1400, y |-> 600]}

\* alignItem applied to the item, under the canvas of the settings store
AlignCall ==
    /\ ~alignCall.done
    /\ sceneItem' = alignItem(sceneItem, canvas.width, canvas.height)
    /\ alignCall' = [done |-> TRUE, before |-> sceneItem]
    /\ UNCHANGED <<canvas, gatewayVars, lifecycleVars, settingsVars, dispatchVars>>

(***************************************************************************)
(* Engine settings: OBS_settings_getSettings(category).data is a list of   *)
(* subcategories, each a list of parameters {name, currentValue, values}.  *)
(***************************************************************************)
\* ---- bounds
MaxSetCalls == 2

\* Number("60") = 60; a string that is no numeral converts to NaN
NumericStrings == {"30", "60", "10000"}
NumeralValue(str) == CASE str = "30" -> 30 [] str = "60" -> 60 [] str = "10000" -> 10000

\* JavaScript's a == b on undefined, null, numbers and strings
LooseEquals(a, b) ==
    IF a.t \in {"undefined", "null"} \/ b.t \in {"undefined", "null"}
    THEN a.t \in {"undefined", "null"} /\ b.t \in {"undefined", "null"}
    ELSE IF a.t = b.t THEN a = b
    ELSE LET num == IF a.t = "number" THEN a ELSE b
             str == IF a.t = "number" THEN b ELSE a
         IN  str.s \in NumericStrings /\ NumeralValue(str.s) = num.n

Param(name, currentValue, values) ==
    [name |-> name, currentValue |-> currentValue, values |-> values]

\* What the engine holds before the wrapper configures it: OBS's defaults on a
\* first run, or what an earlier run saved.
FactorySettings ==
    [Output |->
        <<[nameSubCategory |-> "Untitled",
           parameters |-> <<Param("Mode", JsString("Simple"), <<"Simple", "Advanced">>)>>],
          [nameSubCategory |-> "Streaming",
           parameters |-> <<Param("VBitrate", JsNumber(2500), <<>>)>>],
          [nameSubCategory |-> "Recording",
           parameters |-> <<Param("FilePath", JsString("home"), <<>>),
                            Param("RecFormat", JsString("flv"), <<"flv", "mkv">>),
                            Param("RecEncoder", JsString("x264"), <<"x264", "nvenc">>)>>]>>,
     Video |->
        <<[nameSubCategory |-> "Untitled",
           parameters |-> <<Param("Base", JsString("1920x1080"), <<>>),
                            Param("Output", JsString("1280x720"), <<>>),
                            Param("FPSCommon", JsString("30"), <<"30", "60">>)>>]>>]

SavedSettings ==
    [Output |->
        <<[nameSubCategory |-> "Untitled",
           parameters |-> <<Param("Mode", JsString("Advanced"), <<"Simple", "Advanced">>)>>],
          [nameSubCategory |-> "Streaming",
           parameters |-> <<Param("VBitrate", JsNumber(10000), <<>>)>>],
          [nameSubCategory |-> "Recording",
           parameters |-> <<Param("FilePath", JsString("videos"), <<>>),
                            Param("RecFormat", JsString("mkv"), <<"flv", "mkv">>),
                            Param("RecEncoder", JsString("x264"), <<>>)>>]>>,
     Video |->
        <<[nameSubCategory |-> "Untitled",
           parameters |-> <<Param("Base", JsString("1920x1080"), <<>>),
                            Param("Output", JsString("1920x1080"), <<>>),
                            Param("FPSCommon", JsString("60"), <<"30", "60">>)>>]>>]

EngineSettings == {FactorySettings, SavedSettings}
Categories == {"Output", "Video"}

\* every parameter of a category, in the order the nested forEach visits them
RECURSIVE FlatParams(_)
FlatParams(settings) ==
    IF settings = <<>> THEN <<>>
    ELSE settings[1].parameters \o FlatParams(Tail(settings))

\* oldValue after the loops: the current value of the last parameter of that
\* name, undefined when no parameter has the name
OldValue(settings, parameter) ==
    LET flat == FlatParams(settings)
        hits == {i \in 1..Len(flat) : flat[i].name = parameter}
    IN  IF hits = {} THEN Undefined
        ELSE flat[CHOOSE i \in hits : \A j \in hits : j <= i].currentValue

\* the container after the loops: param.currentValue = value where the name matches
Assigned(settings, parameter, value) ==
    [i \in 1..Len(settings) |->
        [settings[i] EXCEPT !.parameters =
            [j \in 1..Len(settings[i].parameters) |->
                IF settings[i].parameters[j].name = parameter
                THEN [settings[i].parameters[j] EXCEPT !.currentValue = value]
                ELSE settings[i].parameters[j]]]]

SavesAlways(value, oldValue) == TRUE

\* if (value != oldValue)
ShouldSave(value, oldValue) == ~LooseEquals(value, oldValue)

\* OBS.setSetting on the engine state st = [settings, saves]: the saved
\* container replaces the engine's, and the call is logged.
setSetting(st, category, parameter, value) ==
    LET settings == st.settings[category]
        updated == Assigned(settings, parameter, value)
    IN  IF ShouldSave(value, OldValue(settings, parameter))
        THEN [settings |-> [st.settings EXCEPT ![category] = updated],
              saves |-> Append(st.saves, [category |-> category, settings |-> updated])]
        ELSE st

\* OBS.getAvailableValues; every category has data here, so the first warning
\* branch is not reached
getAvailableValues(st, category, subcategory, parameter) ==
    LET subs == {i \in 1..Len(st.settings[category]) :
                    st.settings[category][i].nameSubCategory = subcategory}
    IN  IF subs = {} THEN <<>>
        ELSE LET sub == st.settings[category][CHOOSE i \in subs : \A j \in subs : i <= j]
                 ps == {j \in 1..Len(sub.parameters) : sub.parameters[j].name = parameter}
             IN  IF ps = {} THEN <<>>
                 ELSE sub.parameters[CHOOSE j \in ps : \A k \in ps : j <= k].values

\* OBS.configureOBS
configureOBS(st) ==
    LET s1 == setSetting(st, "Output", "Mode", JsString("Simple"))
        availableEncoders == getAvailableValues(s1, "Output", "Recording", "RecEncoder")
        encoder == IF availableEncoders = <<>> THEN "x264"
                   ELSE availableEncoders[Len(availableEncoders)]
        s2 == setSetting(s1, "Output", "RecEncoder", JsString(encoder))
        s3 == setSetting(s2, "Output", "FilePath", JsString("videos"))
        s4 == setSetting(s3, "Output", "RecFormat", JsString("mkv"))
        s5 == setSetting(s4, "Output", "VBitrate", JsNumber(10000))
    IN  setSetting(s5, "Video", "FPSCommon", JsNumber(60))

\* OBS.setVideoOutputResolution
setVideoOutputResolution(st, store) ==
    LET resolution == JsString(ToString(store.width) \o "x" \o ToString(store.height))
    IN  setSetting(setSetting(st, "Video", "Base", resolution), "Video", "Output", resolution)

\* setSetting called on its own, with arguments of any kind
SetParameters == {"Mode", "VBitrate", "FPSCommon", "NoSuchParameter"}
SetValues == {JsString("Simple"), JsString("60"), JsNumber(60), JsNumber(10000)}

SetSettingCall(category, parameter, value) ==
    /\ Len(saveCalls) < MaxSetCalls
    /\ LET st == setSetting([settings |-> obsSettings, saves |-> saveCalls],
                            category, parameter, value)
       IN  /\ obsSettings' = st.settings
           /\ saveCalls' = st.saves
    /\ settingsCall' = [done |-> TRUE, category |-> category, parameter |-> parameter,
                        value |-> value, before |-> obsSettings,
                        savesBefore |-> Len(saveCalls)]
    /\ UNCHANGED <<gatewayVars, lifecycleVars, alignVars, dispatchVars>>

SetSettingAny ==
    \E category \in Categories, parameter \in SetParameters, value \in SetValues :
        SetSettingCall(category, parameter, value)

(***************************************************************************)
(* The table of supported file types, and paths.  A path or an extension   *)
(* is a sequence of characters.                                            *)
(***************************************************************************)
UpperCase == <<"A", "B", "C", "D", "E", "F", "G", "H", "I", "J", "K", "L", "M",
               "N", "O", "P", "Q", "R", "S", "T", "U", "V", "W", "X", "Y", "Z">>
LowerCase == <<"a", "b", "c", "d", "e", "f", "g", "h", "i", "j", "k", "l", "m",
               "n", "o", "p", "q", "r", "s", "t", "u", "v", "w", "x", "y", "z">>

\* String.prototype.toLowerCase, on the ASCII characters the paths are made of
toLowerCase(str) ==
    [i \in 1..Len(str) |->
        IF \E k \in 1..26 : UpperCase[k] = str[i]
        THEN LowerCase[CHOOSE k \in 1..26 : UpperCase[k] = str[i]]
        ELSE str[i]]

toUpperCase(str) ==
    [i \in 1..Len(str) |->
        IF \E k \in 1..26 : LowerCase[k] = str[i]
        THEN UpperCase[CHOOSE k \in 1..26 : LowerCase[k] = str[i]]
        ELSE str[i]]

supportedFiles ==
    <<[extensions |-> <<<<"p", "n", "g">>, <<"j", "p", "g">>, <<"j", "p", "e", "g">>,
                        <<"t", "g", "a">>, <<"b", "m", "p">>>>,
       prettyName |-> "Image files", obsName |-> "image_source"],
      [extensions |-> <<<<"m", "p", "4">>, <<"t", "s">>, <<"m", "o", "v">>,
                        <<"f", "l", "v">>, <<"m", "k", "v">>, <<"a", "v", "i">>,
                        <<"m", "p", "3">>, <<"o", "g", "g">>, <<"a", "a", "c">>,
                        <<"w", "a", "v">>, <<"g", "i", "f">>, <<"w", "e", "b", "m">>>>,
       prettyName |-> "Video files", obsName |-> "ffmpeg_source"],
      [extensions |-> <<<<"t", "x", "t">>>>,
       prettyName |-> "Text files", obsName |-> "text_gdiplus"],
      [extensions |-> <<<<"h", "t", "m", "l">>>>,
       prettyName |-> "HTML files", obsName |-> "browser_source"]>>

\* Array.prototype.includes
Includes(array, x) == \E i \in 1..Len(array) : array[i] = x

\* realpath.split(".").splice(-1)[0]: what follows the last "."; the whole
\* string when it has none
LastSegment(str) ==
    LET dots == {i \in 1..Len(str) : str[i] = "."}
    IN  IF dots = {} THEN str
        ELSE SubSeq(str, (CHOOSE i \in dots : \A j \in dots : j <= i) + 1, Len(str))

\* the settings record addFile builds for a table entry; null for an obsName
\* none of its four branches knows
settingsFor(obsName, filePath) ==
    IF obsName = "image_source" THEN [file |-> filePath]
    ELSE IF obsName = "browser_source"
    THEN [is_local_file |-> TRUE, local_file |-> filePath]
    ELSE IF obsName = "ffmpeg_source"
    THEN [is_local_file |-> TRUE, local_file |-> filePath, looping |-> TRUE]
    ELSE IF obsName = "text_gdiplus"
    THEN [read_from_file |-> TRUE, file |-> filePath]
    ELSE Null

extensionAsWritten(realpath) == LastSegment(realpath)

\* the extension addFile looks up: of the resolved path, lower-cased
extensionOf(realpath) == toLowerCase(LastSegment(realpath))

\* for (const type of supportedFiles), from entry k on: the first entry that
\* includes ext and has settings decides; null when the loop runs out
RECURSIVE selectType(_, _, _)
selectType(ext, filePath, k) ==
    IF k > Len(supportedFiles) THEN Null
    ELSE IF ~Includes(supportedFiles[k].extensions, ext)
    THEN selectType(ext, filePath, k + 1)
    ELSE IF settingsFor(supportedFiles[k].obsName, filePath) # Null
    THEN [t |-> "type", obsName |-> supportedFiles[k].obsName,
          settings |-> settingsFor(supportedFiles[k].obsName, filePath)]
    ELSE selectType(ext, filePath, k + 1)

dispatchDefaultsToImage(slide) ==
    LET type == selectType(extensionOf(slide.realpath), slide.filePath, 1)
    IN  IF type = Null
        THEN [t |-> "type", obsName |-> "image_source", settings |-> [file |-> slide.filePath]]
        ELSE type

\* what addFile decides for a slide whose path resolved: nothing (null), or
\* the kind and settings of the source to create
dispatch(slide) ==
    IF LastSegment(slide.realpath) = <<>> THEN Null
    ELSE selectType(extensionOf(slide.realpath), slide.filePath, 1)

(***************************************************************************)
(* Slides.  fs.realpathSync(slide.filePath) is the file system's answer:   *)
(* the same path for a plain file, the target for a symbolic link, and an  *)
(* ENOENT error for a file that is gone.                                   *)
(***************************************************************************)
Plain(path) == [filePath |-> path, exists |-> TRUE, realpath |-> path]
Link(path, target) == [filePath |-> path, exists |-> TRUE, realpath |-> target]
Gone(path) == [filePath |-> path, exists |-> FALSE, realpath |-> <<>>]

\* an absolute path dir/name.ext, as realpathSync returns them
Named(stem, ext) == <<"/">> \o stem \o <<".">> \o ext

TableExtensions ==
    UNION {{supportedFiles[k].extensions[i] : i \in 1..Len(supportedFiles[k].extensions)} :
              k \in 1..Len(supportedFiles)}

UnsupportedPaths ==
    {Named(<<"a">>, <<"e", "x", "e">>),                       \* /a.exe
     Named(<<"a">>, <<"p", "n", "g", "x">>),                  \* /a.pngx
     Named(<<"a">>, <<"p", "n">>),                            \* /a.pn
     Named(<<"a", ".", "p", "n", "g">>, <<"b", "a", "k">>),   \* /a.png.bak
     <<"/", "d", ".", "p", "n", "g", "/", "a">>,              \* /d.png/a
     <<"/", "p", "n", "g">>,                                  \* /png
     <<"/", "a">>,                                            \* /a
     <<"/", "a", ".">>}                                       \* /a.

Slides ==
    {Plain(Named(<<"a">>, e)) : e \in TableExtensions}
    \cup {Plain(Named(<<"a">>, toUpperCase(e))) : e \in TableExtensions}
    \cup {Plain(Named(<<"a">>, <<"J", "p", "e", "G">>)),
          Plain(Named(<<"a", ".", "t", "x", "t">>, <<"h", "T", "M", "l">>))}
    \cup {Plain(path) : path \in UnsupportedPaths}
    \cup {Link(Named(<<"l">>, <<"p", "n", "g">>), Named(<<"a">>, <<"m", "p", "4">>)),
          Link(Named(<<"l">>, <<"e", "x", "e">>), Named(<<"a">>, <<"T", "X", "T">>)),
          Link(Named(<<"l">>, <<"p", "n", "g">>), Named(<<"a">>, <<"e", "x", "e">>)),
          Gone(Named(<<"g">>, <<"p", "n", "g">>))}

FewSlides ==
    {Plain(Named(<<"a">>, <<"p", "n", "g">>)), Plain(Named(<<"a">>, <<"M", "P", "4">>)),
     Plain(Named(<<"a">>, <<"e", "x", "e">>)), Plain(<<"/", "a">>), Plain(<<"/", "a", ".">>),
     Link(Named(<<"l">>, <<"p", "n", "g">>), Named(<<"a">>, <<"e", "x", "e">>)),
     Gone(Named(<<"g">>, <<"p", "n", "g">>))}

(***************************************************************************)
(* The OBS wrapper's life: construction, addFile, timers, shutdown.        *)
(***************************************************************************)
\* ---- bounds
MaxFiles == 2
MaxDispatch == 1
MaxShutdowns == 2

LOGO_SCENE_ID == "LOGOSCENE"
NoError == "none"
NoItem == [t |-> "none"]

PristineEngine ==
    [ipcHosted |-> FALSE, initResult |-> <<>>, signalsConnected |-> FALSE,
     callbackRemovals |-> 0, ipcDisconnects |-> 0, previewDisplay |-> FALSE,
     transitionScene |-> <<>>]

\* OBS_API_initAPI's return codes: 0 for success, the two codes initOBS
\* knows, and two it does not
InitResults == {0, -2, -5, -1, 3}
LogoSizes == {[width |-> 256, height |-> 256], [width |-> 300, height |-> 100]}
StoreCanvases ==
    {[width |-> 1920, height |-> 1080], [width |-> 1080, height |-> 1920],
     [width |-> 1080, height |-> 1080]}

\* errorReasons[initResult.toString()] || `An unknown error #...`
errorMessage(initResult) ==
    IF initResult = -2
    THEN "DirectX could not be found on your system. Please install the latest version of DirectX for your machine here <https://www.microsoft.com/en-us/download/details.aspx?id=35?> and try again."
    ELSE IF initResult = -5
    THEN "Failed to initialize OBS. Your video drivers may be out of date, or Streamlabs OBS may not be supported on your system."
    ELSE "An unknown error #" \o ToString(initResult) \o " was encountered while initializing OBS."

\* which engine call of shutdown's try block throws, if any
Faults == {"none", "OBS_service_removeCallback", "IPC.disconnect"}

ObsObject == [obsInitialized |-> obsInitialized, engine |-> engine,
              previewWindow |-> previewWindow]

shutdownUnguarded(o, fault) ==
    [obsInitialized |-> FALSE,
     engine |-> [o.engine EXCEPT !.callbackRemovals = @ + 1,
                                 !.ipcDisconnects = @ + 1,
                                 !.signalsConnected = FALSE],
     previewWindow |-> FALSE,
     result |-> "true"]

\* OBS.shutdown on o = [obsInitialized, engine, previewWindow]: what it leaves
\* and how it ends (returns true, returns false, or throws).  The counters
\* count the calls made, whether or not they threw.
shutdown(o, fault) ==
    IF ~o.obsInitialized
    THEN [obsInitialized |-> o.obsInitialized, engine |-> o.engine,
          previewWindow |-> o.previewWindow, result |-> "false"]
    ELSE IF fault = "OBS_service_removeCallback"
    THEN [obsInitialized |-> TRUE,
          engine |-> [o.engine EXCEPT !.callbackRemovals = @ + 1],
          previewWindow |-> o.previewWindow, result |-> "throws"]
    ELSE IF fault = "IPC.disconnect"
    THEN [obsInitialized |-> TRUE,
          engine |-> [o.engine EXCEPT !.callbackRemovals = @ + 1,
                                      !.ipcDisconnects = @ + 1,
                                      !.signalsConnected = FALSE],
          previewWindow |-> o.previewWindow, result |-> "throws"]
    ELSE [obsInitialized |-> FALSE,
          engine |-> [o.engine EXCEPT !.callbackRemovals = @ + 1,
                                      !.ipcDisconnects = @ + 1,
                                      !.signalsConnected = FALSE],
          previewWindow |-> FALSE,
          result |-> "true"]

\* OBS.initOBS up to its branch on initResult
hostAndInit(e, initResult) ==
    [e EXCEPT !.ipcHosted = TRUE, !.initResult = <<initResult>>]

\* new OBS(parentWindow) with OBS_API_initAPI returning a code other than 0:
\* initOBS calls this.shutdown() and throws, so initialize and the constructor
\* end there
ConstructFails(initResult) ==
    /\ pc = "new"
    /\ initResult # 0
    /\ \E fault \in Faults :
           LET o == shutdown([ObsObject EXCEPT !.engine = hostAndInit(engine, initResult)],
                             fault)
           IN  /\ obsInitialized' = o.obsInitialized
               /\ engine' = o.engine
               /\ previewWindow' = o.previewWindow
    /\ thrown' = errorMessage(initResult)
    /\ pc' = "failed"
    /\ UNCHANGED <<statsTimer, shutdownCalls, gatewayVars, settingsVars, alignVars, dispatchVars>>

\* new OBS(parentWindow) with OBS_API_initAPI returning 0: initOBS,
\* configureOBS, setupSources, setupPreview, then the flag and the interval
Construct(logo) ==
    /\ pc = "new"
    /\ ~obsInitialized
    /\ LET st == setVideoOutputResolution(
                     configureOBS([settings |-> obsSettings, saves |-> saveCalls]), canvas)
           si == NewItem(logo.width, logo.height, [x |-> 0, y |-> 0])
       IN  /\ obsSettings' = st.settings
           /\ saveCalls' = st.saves
           /\ sceneItem' = alignItem(si, canvas.width, canvas.height)
           /\ alignCall' = [done |-> TRUE, before |-> si]
    /\ sources' = Append(sources, [id |-> <<"logo">>, type |-> "image_source",
                                   settings |-> [file |-> <<"favicon.png">>]])
    /\ scenes' = Append(scenes, [id |-> <<LOGO_SCENE_ID>>, items |-> <<<<"logo">>>>])
    /\ engine' = [hostAndInit(engine, 0) EXCEPT !.signalsConnected = TRUE,
                                                !.transitionScene = <<LOGO_SCENE_ID>>,
                                                !.previewDisplay = TRUE]
    /\ obsInitialized' = TRUE
    /\ statsTimer' = TRUE
    /\ pc' = "running"
    /\ UNCHANGED <<thrown, previewWindow, shutdownCalls, canvas, settingsCall, timers,
                   started, addCalls, gatewayVars>>

\* OBS.shutdown, called by the owner of the object
Shutdown(fault) ==
    /\ pc = "running"
    /\ Len(shutdownCalls) < MaxShutdowns
    /\ LET o == shutdown(ObsObject, fault)
       IN  /\ obsInitialized' = o.obsInitialized
           /\ engine' = o.engine
           /\ previewWindow' = o.previewWindow
           /\ shutdownCalls' = Append(shutdownCalls,
                  [before |-> ObsObject, fault |-> fault, result |-> o.result,
                   after |-> [obsInitialized |-> o.obsInitialized, engine |-> o.engine,
                              previewWindow |-> o.previewWindow]])
    /\ UNCHANGED <<pc, thrown, statsTimer, gatewayVars, settingsVars, alignVars, dispatchVars>>

\* OBS.setupProjector: opens the projector window unless there is one
setupProjector ==
    /\ pc = "running"
    /\ ~previewWindow
    /\ previewWindow' = TRUE
    /\ UNCHANGED <<pc, obsInitialized, engine, thrown, statsTimer, shutdownCalls,
                   gatewayVars, settingsVars, alignVars, dispatchVars>>

\* OBS.endProjector (and the window's own "close"): previewWindow = undefined
endProjector ==
    /\ pc = "running"
    /\ previewWindow
    /\ previewWindow' = FALSE
    /\ UNCHANGED <<pc, obsInitialized, engine, thrown, statsTimer, shutdownCalls,
                   gatewayVars, settingsVars, alignVars, dispatchVars>>

createSourceReusingId(type, settings, n) ==
    [id |-> <<type, 0>>, type |-> type, settings |-> settings]

\* OBS.createSource: `${type}_${uuid()}`, the n-th uuid drawn being new
createSource(type, settings, n) ==
    [id |-> <<type, n>>, type |-> type, settings |-> settings]

scheduleSuperseding(pending, sceneId) == <<sceneId>>

\* setTimeout(() => this.transitionTo(sceneId), 1000): every timer has the
\* same delay, so the event loop runs them in the order they were set
schedule(pending, sceneId) == Append(pending, sceneId)

\* the calls addFile makes once it has settings, in program order:
\* createSource (InputFactory.create), SceneFactory.create, scene.add,
\* setTimeout
engineCalls(sourceId, sceneId) ==
    <<[op |-> "InputFactory.create", source |-> sourceId, scene |-> <<>>],
      [op |-> "SceneFactory.create", source |-> <<>>, scene |-> sceneId],
      [op |-> "scene.add", source |-> sourceId, scene |-> sceneId],
      [op |-> "setTimeout", source |-> <<>>, scene |-> sceneId]>>

\* OBS.addFile.  Math.random().toString() names the scene; the n-th draw is
\* taken to differ from the earlier ones.
addFile(slide) ==
    /\ pc = "running"
    /\ IF ~slide.exists
       THEN /\ addCalls' = Append(addCalls, [slide |-> slide, result |-> "throws", pending |-> timers])
            /\ UNCHANGED <<sources, scenes, timers, started>>
       ELSE LET type == dispatch(slide)
            IN  IF type = Null
                THEN /\ addCalls' = Append(addCalls, [slide |-> slide, result |-> "null", pending |-> timers])
                     /\ UNCHANGED <<sources, scenes, timers, started>>
                ELSE LET s == createSource(type.obsName, type.settings, Len(sources))
                         sceneId == <<"random", Len(scenes)>>
                     IN  /\ sources' = Append(sources, s)
                         /\ scenes' = Append(scenes, [id |-> sceneId, items |-> <<s.id>>])
                         /\ timers' = schedule(timers, sceneId)
                         /\ addCalls' = Append(addCalls,
                                [slide |-> slide, result |-> "source", pending |-> timers,
                                 source |-> s.id, scene |-> sceneId,
                                 calls |-> engineCalls(s.id, sceneId)])
                         /\ UNCHANGED started
    /\ UNCHANGED <<lifecycleVars, gatewayVars, settingsVars, alignVars>>

\* the timer callback: OBS.transitionTo(sceneId)
transitionTo ==
    /\ timers # <<>>
    /\ \E i \in 1..Len(scenes) : scenes[i].id = Head(timers)
    /\ started' = Append(started, Head(timers))
    /\ engine' = [engine EXCEPT !.transitionScene = Head(timers)]
    /\ timers' = Tail(timers)
    /\ UNCHANGED <<pc, obsInitialized, thrown, statsTimer, previewWindow, shutdownCalls,
                   sources, scenes, addCalls, gatewayVars, settingsVars, alignVars>>

AddFile == \E slide \in FewSlides : Len(addCalls) < MaxFiles /\ addFile(slide)
DispatchFile == \E slide \in Slides : Len(addCalls) < MaxDispatch /\ addFile(slide)
ConstructOk == \E logo \in LogoSizes : Construct(logo)
ConstructThrows == \E initResult \in InitResults : ConstructFails(initResult)
\* shutdown with the engine answering its calls
ShutdownCleanly == Shutdown("none")
\* shutdown with the engine answering, or throwing in, either call; when the
\* guard returns at once no engine call is made and there is nothing to fail
ShutdownAny ==
    \E fault \in Faults : (obsInitialized \/ fault = "none") /\ Shutdown(fault)

(***************************************************************************)
(* Specifications                                                          *)
(***************************************************************************)
\* the gateway once init has run and its server listens
InitGateway ==
    /\ connectedMobiles = <<>>
    /\ requests = <<>>
    /\ expressRunning = TRUE
    /\ http = ServerUp
    /\ opens = <<>>
\* the gateway as constructed
InitService ==
    /\ connectedMobiles = <<>>
    /\ requests = <<>>
    /\ expressRunning = FALSE
    /\ http = NoServer
    /\ opens = <<>>
InitLifecycle ==
    /\ pc = "new"
    /\ obsInitialized = FALSE
    /\ engine = PristineEngine
    /\ thrown = NoError
    /\ statsTimer = FALSE
    /\ previewWindow = FALSE
    /\ shutdownCalls = <<>>
InitSettings ==
    /\ obsSettings \in EngineSettings
    /\ saveCalls = <<>>
    /\ settingsCall = NoCall
InitDispatch ==
    /\ sources = <<>>
    /\ scenes = <<>>
    /\ timers = <<>>
    /\ started = <<>>
    /\ addCalls = <<>>

Init ==
    /\ InitGateway /\ InitLifecycle /\ InitSettings /\ InitDispatch
    /\ canvas \in StoreCanvases
    /\ sceneItem = NoItem
    /\ alignCall = NoCall

Next == ConstructOk \/ ConstructThrows \/ AddFile \/ transitionTo \/ ShutdownCleanly
Spec == Init /\ [][Next]_vars

\* the event loop runs every timer that is due
LiveSpec == Spec /\ WF_vars(transitionTo)

NextDispatch == ConstructOk \/ DispatchFile \/ transitionTo
SpecDispatch == Init /\ [][NextDispatch]_vars

NextSettings == SetSettingAny
SpecSettings == Init /\ [][NextSettings]_vars

InitAlign ==
    /\ InitGateway /\ InitLifecycle /\ InitSettings /\ InitDispatch
    /\ obsSettings = FactorySettings
    /\ canvas \in Canvases
    /\ \E w \in ItemWidths, h \in ItemHeights, pos \in PriorPositions :
           sceneItem = NewItem(w, h, pos)
    /\ alignCall = NoCall
NextAlign == AlignCall
SpecAlign == InitAlign /\ [][NextAlign]_vars

NextShutdown ==
    ConstructOk \/ ConstructThrows \/ setupProjector \/ endProjector \/ ShutdownAny
SpecShutdown == Init /\ [][NextShutdown]_vars

NextGateway == HandleConnect \/ HandleDisconnect
SpecGateway == Init /\ [][NextGateway]_vars

InitServer ==
    /\ InitService /\ InitLifecycle /\ InitSettings /\ InitDispatch
    /\ canvas = [width |-> 1920, height |-> 1080]
    /\ obsSettings = FactorySettings
    /\ sceneItem = NoItem
    /\ alignCall = NoCall
NextServer ==
    \/ init \/ listening
    \/ PostConnect \/ PostDisconnect \/ PostOpenRecentShow \/ GetData
    \/ OpenFulfilled \/ OpenRejected
SpecServer == InitServer /\ [][NextServer]_vars

(***************************************************************************)
(* Claims                                                                  *)
(***************************************************************************)
\* ---- what the claims say about paths and the table, in their own terms
\* the text after the last "." of a path that has one
TextAfterLastDot(path) ==
    LET last == CHOOSE i \in 1..Len(path) :
                    path[i] = "." /\ \A j \in (i + 1)..Len(path) : path[j] # "."
    IN  SubSeq(path, last + 1, Len(path))
HasDot(path) == \E i \in 1..Len(path) : path[i] = "."
SameIgnoringCase(a, b) == toUpperCase(a) = toUpperCase(b)

\* the table entries that hold the extension of a path, compared without case
EntriesFor(path) ==
    IF ~HasDot(path) THEN {}
    ELSE {k \in 1..Len(supportedFiles) :
            \E i \in 1..Len(supportedFiles[k].extensions) :
                SameIgnoringCase(supportedFiles[k].extensions[i], TextAfterLastDot(path))}

\* the settings record the specification gives for each kind
ClaimedSettings(obsName, path) ==
    CASE obsName = "image_source" -> [file |-> path]
      [] obsName = "ffmpeg_source" -> [is_local_file |-> TRUE, local_file |-> path, looping |-> TRUE]
      [] obsName = "text_gdiplus" -> [read_from_file |-> TRUE, file |-> path]
      [] obsName = "browser_source" -> [is_local_file |-> TRUE, local_file |-> path]

SourcesWithId(id) == {j \in 1..Len(sources) : sources[j].id = id}

\* C1: for every slide whose file resolves to a path with an extension of the
\* table (compared without case), addFile creates one source, of the kind of the
\* single table entry that holds the extension, with that kind's settings
\* record built from the slide's path: image {file}, video/audio {is_local_file,
\* local_file, looping}, text {read_from_file, file}, web {is_local_file,
\* local_file}.  The table names the four kinds, and no extension is in two
\* of its entries.
C1_SupportedExtensionSelectsOneKind ==
    /\ {supportedFiles[k].obsName : k \in 1..Len(supportedFiles)} =
           {"image_source", "ffmpeg_source", "text_gdiplus", "browser_source"}
    /\ \A k1, k2 \in 1..Len(supportedFiles) :
           \A i1 \in 1..Len(supportedFiles[k1].extensions), i2 \in 1..Len(supportedFiles[k2].extensions) :
               supportedFiles[k1].extensions[i1] = supportedFiles[k2].extensions[i2]
                   => k1 = k2 /\ i1 = i2
    /\ \A c \in 1..Len(addCalls) :
           LET call == addCalls[c]
               entries == EntriesFor(call.slide.realpath)
           IN  call.slide.exists /\ entries # {} =>
                   /\ Cardinality(entries) = 1
                   /\ call.result = "source"
                   /\ Cardinality(SourcesWithId(call.source)) = 1
                   /\ \A j \in SourcesWithId(call.source) :
                          /\ sources[j].type = supportedFiles[CHOOSE k \in entries : TRUE].obsName
                          /\ sources[j].settings =
                                 ClaimedSettings(sources[j].type, call.slide.filePath)

\* a source made for an upper-case extension, through a symbolic link, and one
\* of each of the four kinds have been seen
C1_Witness ==
    /\ addCalls # <<>>
    /\ addCalls[1].result = "source"
    /\ addCalls[1].slide.realpath = Named(<<"a">>, <<"W", "E", "B", "M">>)
    /\ sources[Len(sources)].type = "ffmpeg_source"
    /\ sources[Len(sources)].settings.looping

SuccessfulCalls == {c \in 1..Len(addCalls) : addCalls[c].result = "source"}
Constructed == IF pc = "running" THEN 1 ELSE 0

\* C2: for every slide whose file resolves to a path with no extension (no ".",
\* or nothing after the last ".") or with one the table does not hold, addFile
\* returns null; and neither then nor later is there a source, a scene, a
\* pending timer or a started transition that no successful addFile call made:
\* beside the logo's, the sources and the scenes are those of the successful
\* calls, one each, and every timer or transition is for one of their scenes.
C2_UnsupportedExtensionHasNoEffect ==
    /\ \A c \in 1..Len(addCalls) :
           addCalls[c].slide.exists /\ EntriesFor(addCalls[c].slide.realpath) = {}
               => addCalls[c].result = "null"
    /\ Len(sources) = Constructed + Cardinality(SuccessfulCalls)
    /\ Len(scenes) = Constructed + Cardinality(SuccessfulCalls)
    /\ Len(timers) + Len(started) = Cardinality(SuccessfulCalls)
    /\ \A j \in 1..Len(sources) :
           sources[j].id = <<"logo">> \/ \E c \in SuccessfulCalls : addCalls[c].source = sources[j].id
    /\ \A j \in 1..Len(scenes) :
           scenes[j].id = <<LOGO_SCENE_ID>> \/ \E c \in SuccessfulCalls : addCalls[c].scene = scenes[j].id
    /\ \A j \in 1..Len(timers) : \E c \in SuccessfulCalls : addCalls[c].scene = timers[j]
    /\ \A j \in 1..Len(started) : \E c \in SuccessfulCalls : addCalls[c].scene = started[j]

\* addFile returned null for /a.exe while an earlier file's timer was pending,
\* and that timer has fired since
C2_Witness ==
    /\ Len(addCalls) = 2
    /\ addCalls[2].result = "null"
    /\ addCalls[2].slide.realpath = Named(<<"a">>, <<"e", "x", "e">>)
    /\ addCalls[2].pending # <<>>
    /\ timers = <<>>
    /\ Len(started) = 1

\* ---- connected devices
Carries(entry, id) == Dereferencable(entry.device) /\ entry.device.uuid = id
IsUuid(v) == v.t = "string"
ConnectsDevice(r, id) ==
    /\ r.route = "/connect"
    /\ Dereferencable(r.body)
    /\ Dereferencable(r.body.device)
    /\ r.body.device.uuid = id
DisconnectsDevice(r, id) ==
    r.route = "/disconnect" /\ Dereferencable(r.body) /\ r.body.deviceId = id
ConnectThenDisconnect(i, id) ==
    /\ i + 1 <= Len(requests)
    /\ IsUuid(id)
    /\ ConnectsDevice(requests[i], id)
    /\ DisconnectsDevice(requests[i + 1], id)
AllHaveDevices(list) == \A k \in 1..Len(list) : Dereferencable(list[k].device)
NoneCarries(list, id) == \A k \in 1..Len(list) : ~Carries(list[k], id)
DeviceIds == {JsString(u) : u \in UUIDs \cup {"C"}} \cup {Undefined}

\* C3 (as amended): from a list L in which every entry has a device record and
\* none carries UUID A, /connect for a device with UUID A followed by
\* /disconnect with deviceId A leaves the list equal to L; and from any list,
\* /disconnect with a deviceId that no entry carries leaves the list as it was.
C3_ConnectThenDisconnectRestores ==
    /\ \A i \in 1..Len(requests) : \A id \in DeviceIds :
           /\ ConnectThenDisconnect(i, id)
           /\ AllHaveDevices(requests[i].before)
           /\ NoneCarries(requests[i].before, id)
           => requests[i + 1].after = requests[i].before
    /\ \A i \in 1..Len(requests) : \A id \in DeviceIds :
           DisconnectsDevice(requests[i], id) /\ NoneCarries(requests[i].before, id)
               => requests[i].after = requests[i].before

\* B is connected, then A connects and disconnects: the list is [B] again
C3_Witness ==
    /\ Len(requests) = 3
    /\ ConnectThenDisconnect(2, JsString("A"))
    /\ requests[2].before # <<>>
    /\ NoneCarries(requests[2].before, JsString("A"))
    /\ requests[2].after # requests[2].before
    /\ connectedMobiles = requests[2].before

\* C3 as stated: the same from any reachable list L and any UUID A (here even
\* granted that every entry of L has a device record)
C3_AsStated ==
    \A i \in 1..Len(requests) : \A id \in DeviceIds :
        ConnectThenDisconnect(i, id) /\ AllHaveDevices(requests[i].before)
            => requests[i + 1].after = requests[i].before

\* C9: no two entries of connectedMobiles carry the same device UUID
C9_UuidIsUniqueKey ==
    \A i, j \in 1..Len(connectedMobiles) :
        /\ i # j
        /\ Dereferencable(connectedMobiles[i].device)
        /\ Dereferencable(connectedMobiles[j].device)
        /\ IsUuid(connectedMobiles[i].device.uuid)
        => connectedMobiles[i].device.uuid # connectedMobiles[j].device.uuid

\* the entries of a list that do not carry a UUID, in their order
RECURSIVE Others(_, _)
Others(list, id) ==
    IF list = <<>> THEN <<>>
    ELSE IF Carries(list[1], id) THEN Others(Tail(list), id)
    ELSE <<list[1]>> \o Others(Tail(list), id)

AppendsOne(r) ==
    /\ Len(r.after) = Len(r.before) + 1
    /\ SubSeq(r.after, 1, Len(r.before)) = r.before
    /\ r.after[Len(r.after)] = [device |-> r.body.device]
    /\ r.success
RemovesMatching(r) ==
    /\ r.after = Others(r.before, r.body.deviceId)
    /\ r.success
Fails(r) == r.after = r.before /\ ~r.success

\* C10 (as amended): for a request whose body parsed to an object, /connect
\* appends exactly one entry, for the request's device, at the end of the list,
\* changes no existing entry and responds {success: true}; /disconnect, when
\* every entry of the list has a device record, removes every entry whose
\* device UUID equals the request's deviceId, keeps every other entry in its
\* order and responds {success: true}.  A /disconnect that meets an entry
\* without a device record leaves the list as it was and sends no success.
\* connectedMobiles changes in no other way.
C10_ConnectAppendsDisconnectFilters ==
    /\ \A i \in 1..Len(requests) :
           LET r == requests[i]
           IN  /\ r.route = "/connect" /\ Dereferencable(r.body) => AppendsOne(r)
               /\ r.route = "/disconnect" /\ Dereferencable(r.body) =>
                      IF AllHaveDevices(r.before) THEN RemovesMatching(r) ELSE Fails(r)
               /\ r.before = IF i = 1 THEN <<>> ELSE requests[i - 1].after
    /\ connectedMobiles = IF requests = <<>> THEN <<>> ELSE requests[Len(requests)].after

\* A and B are connected and A disconnects: B alone is left
C10_Witness ==
    /\ Len(requests) = 3
    /\ DisconnectsDevice(requests[3], JsString("A"))
    /\ requests[3].success
    /\ Len(requests[3].before) = 2
    /\ Carries(requests[3].before[1], JsString("A"))
    /\ Carries(requests[3].before[2], JsString("B"))
    /\ connectedMobiles = <<requests[3].before[2]>>

\* C10 as stated: every /connect appends and every /disconnect filters, and
\* both respond {success: true} (here for the requests whose body parsed to an
\* object)
C10_AsStated ==
    \A i \in 1..Len(requests) :
        LET r == requests[i]
        IN  /\ r.route = "/connect" /\ Dereferencable(r.body) => AppendsOne(r)
            /\ r.route = "/disconnect" /\ Dereferencable(r.body) => RemovesMatching(r)

\* ---- setSetting
ParametersNamed(settings, name) ==
    UNION {{<<i, j>> : j \in {k \in 1..Len(settings[i].parameters) :
                                   settings[i].parameters[k].name = name}} :
              i \in 1..Len(settings)}
ValueAt(settings, p) == settings[p[1]].parameters[p[2]].currentValue
SavesMade == SubSeq(saveCalls, settingsCall.savesBefore + 1, Len(saveCalls))
SavedWith(settings, name, value) ==
    /\ Len(SavesMade) = 1
    /\ SavesMade[1].category = settingsCall.category
    /\ obsSettings[settingsCall.category] = SavesMade[1].settings
    /\ \A p \in ParametersNamed(SavesMade[1].settings, name) :
           ValueAt(SavesMade[1].settings, p) = value

\* C4 (as amended): for a parameter the category's settings hold, setSetting
\* makes no persistence call when value equals (JavaScript ==) the parameter's
\* current value, and exactly one when it differs, saving a record in which
\* that parameter's currentValue is value and every other parameter is as it
\* was.  For a name the category does not hold, setSetting makes exactly one
\* persistence call, and the record it saves is the category's settings
\* unchanged: no parameter of it has that name.
C4_SetSettingSavesOnChange ==
    settingsCall.done =>
        LET before == settingsCall.before[settingsCall.category]
            named == ParametersNamed(before, settingsCall.parameter)
        IN  /\ \A p \in named :
                   IF LooseEquals(settingsCall.value, ValueAt(before, p))
                   THEN /\ SavesMade = <<>>
                        /\ obsSettings = settingsCall.before
                   ELSE /\ SavedWith(before, settingsCall.parameter, settingsCall.value)
                        /\ ParametersNamed(SavesMade[1].settings, settingsCall.parameter) = named
                        /\ \A i \in 1..Len(before) : \A j \in 1..Len(before[i].parameters) :
                               <<i, j>> \notin named =>
                                   SavesMade[1].settings[i].parameters[j] = before[i].parameters[j]
            /\ named = {} =>
                   /\ Len(SavesMade) = 1
                   /\ SavesMade[1] = [category |-> settingsCall.category, settings |-> before]
                   /\ obsSettings = settingsCall.before

\* one call changed FPSCommon and saved; one named a parameter that is not there
C4_Witness ==
    /\ settingsCall.done
    /\ settingsCall.category = "Video"
    /\ settingsCall.parameter = "FPSCommon"
    /\ settingsCall.value = JsNumber(10000)
    /\ Len(SavesMade) = 1
    /\ Len(saveCalls) = 2
    /\ ParametersNamed(saveCalls[1].settings, "NoSuchParameter") = {}
    /\ saveCalls[1].settings \in {FactorySettings[c] : c \in Categories}

\* C4 as stated: for every parameter name, one that does not exist included (its
\* current value is then undefined), an equal value makes no persistence call
\* and a different one makes exactly one, whose record has that parameter's
\* currentValue set to value
C4_AsStated ==
    settingsCall.done =>
        LET before == settingsCall.before[settingsCall.category]
            named == ParametersNamed(before, settingsCall.parameter)
            current == IF named = {} THEN Undefined
                       ELSE ValueAt(before, CHOOSE p \in named : TRUE)
        IN  IF LooseEquals(settingsCall.value, current)
            THEN SavesMade = <<>>
            ELSE /\ Len(SavesMade) = 1
                 /\ \E p \in ParametersNamed(SavesMade[1].settings, settingsCall.parameter) :
                        ValueAt(SavesMade[1].settings, p) = settingsCall.value

\* ---- alignItem
Landscape == canvas.width > canvas.height
Portrait == canvas.width < canvas.height
ScaledWidth == alignCall.before.source.width * sceneItem.scale.x
ScaledHeight == alignCall.before.source.height * sceneItem.scale.y

\* C5: alignItem sets the scale on both axes to the ratio of the canvas's
\* smaller side to the item's native width, truncated to two decimals: in
\* hundredths, scale * 100 = floor(100 * min(canvasWidth, canvasHeight) /
\* itemNativeWidth); 2.16 for a 500 x 500 item on a 1920 x 1080 canvas.
C5_ScaleIsRatioTruncatedToHundredths ==
    alignCall.done =>
        LET smallest == IF canvas.width <= canvas.height THEN canvas.width ELSE canvas.height
            truncated == (100 * smallest) \div alignCall.before.source.width
        IN  /\ sceneItem.scale = [x |-> truncated, y |-> truncated]
            /\ canvas = [width |-> 1920, height |-> 1080]
                   /\ alignCall.before.source.width = 500 => sceneItem.scale.x = 216

\* What holds of the scale instead: it is the truncated ratio or one hundredth
\* less, and less only where the ratio is a whole number of hundredths.
C5_ScaleWithinOneHundredth ==
    alignCall.done =>
        LET smallest == IF canvas.width <= canvas.height THEN canvas.width ELSE canvas.height
            width == alignCall.before.source.width
            truncated == (100 * smallest) \div width
        IN  /\ sceneItem.scale.x = sceneItem.scale.y
            /\ sceneItem.scale.x \in {truncated, truncated - 1}
            /\ sceneItem.scale.x = truncated - 1 => (100 * smallest) % width = 0

\* C6 (as amended): after alignItem on a landscape canvas the item is at y = 0
\* and x = (canvasWidth - itemNativeWidth * scale) / 2, and on a portrait canvas
\* at x = 0 and y = (canvasHeight - itemNativeHeight * scale) / 2, scale being
\* the value alignItem just set: the named axis is zero and the scaled item has
\* equal margins on the other.  The other coordinate is positive on a landscape
\* canvas; on a portrait canvas it is zero when the scaled height equals the
\* canvas height and negative when it exceeds it.  (Positions in 1/200 px,
\* scales in hundredths.)
C6_PositionCentresOneAxis ==
    alignCall.done =>
        /\ Landscape =>
               /\ sceneItem.position.y = 0
               /\ sceneItem.position.x = 100 * canvas.width - ScaledWidth
               /\ sceneItem.position.x > 0
        /\ Portrait =>
               /\ sceneItem.position.x = 0
               /\ sceneItem.position.y = 100 * canvas.height - ScaledHeight
               /\ (sceneItem.position.y = 0) = (ScaledHeight = 100 * canvas.height)
               /\ (sceneItem.position.y < 0) = (ScaledHeight > 100 * canvas.height)

\* a 500 x 500 item on the 1080 x 1920 canvas: x = 0, y = (1920 - 500 * 2.16) / 2
C6_Witness ==
    /\ alignCall.done
    /\ canvas = [width |-> 1080, height |-> 1920]
    /\ alignCall.before.source = [width |-> 500, height |-> 500]
    /\ alignCall.before.position # [x |-> 0, y |-> 0]
    /\ sceneItem.position = [x |-> 0, y |-> 84000]

\* C6 as stated: the same, and exactly one of the two coordinates is zero
C6_AsStated ==
    alignCall.done /\ (Landscape \/ Portrait) =>
        /\ Landscape => sceneItem.position.y = 0
                        /\ sceneItem.position.x = 100 * canvas.width - ScaledWidth
        /\ Portrait => sceneItem.position.x = 0
                       /\ sceneItem.position.y = 100 * canvas.height - ScaledHeight
        /\ (sceneItem.position.x = 0) # (sceneItem.position.y = 0)

\* ---- timers
\* the scenes of the successful addFile calls, in the order of the calls
RECURSIVE CallScenes(_)
CallScenes(calls) ==
    IF calls = <<>> THEN <<>>
    ELSE IF calls[1].result = "source" THEN <<calls[1].scene>> \o CallScenes(Tail(calls))
    ELSE CallScenes(Tail(calls))

\* C7: when addFile succeeds for F1 and then for F2 before F1's timer has fired
\* (and in every other interleaving), each scheduled transition eventually
\* starts; transitions start in the order of the addFile calls, none cancelled
\* or superseded (the started transitions followed by the pending timers are
\* the scenes of the successful calls, in order); and once no timer is pending
\* the transition targets the scene of the last successful call.
C7_TransitionsRunInSubmissionOrder ==
    /\ [](started \o timers = CallScenes(addCalls))
    /\ [](timers = <<>> /\ started # <<>> =>
             engine.transitionScene = CallScenes(addCalls)[Len(CallScenes(addCalls))])
    /\ \A n \in 1..MaxFiles :
           (Len(CallScenes(addCalls)) >= n)
               ~> (Len(started) >= n /\ started[n] = CallScenes(addCalls)[n])

\* F2 was added while F1's timer was pending; both transitions have started,
\* F1's first, and F2's scene is the one shown
C7_Witness ==
    /\ Len(addCalls) = 2
    /\ addCalls[1].result = "source"
    /\ addCalls[2].result = "source"
    /\ addCalls[2].pending = <<addCalls[1].scene>>
    /\ started = <<addCalls[1].scene, addCalls[2].scene>>
    /\ timers = <<>>
    /\ engine.transitionScene = addCalls[2].scene

\* ---- initialization failure
InitFailed == pc = "failed"
ClaimedMessage(code) ==
    CASE code = -2 -> "DirectX could not be found on your system. Please install the latest version of DirectX for your machine here <https://www.microsoft.com/en-us/download/details.aspx?id=35?> and try again."
      [] code = -5 -> "Failed to initialize OBS. Your video drivers may be out of date, or Streamlabs OBS may not be supported on your system."
      [] code = -1 -> "An unknown error #-1 was encountered while initializing OBS."
      [] code = 3 -> "An unknown error #3 was encountered while initializing OBS."

\* what does hold when OBS_API_initAPI returns a nonzero code: nothing is
\* configured or set up, obsInitialized stays false, and the error thrown has
\* the fixed text for -2 and -5 and names the code otherwise
InitFailureAborts ==
    InitFailed =>
        /\ engine.initResult # <<0>>
        /\ saveCalls = <<>> /\ obsSettings \in EngineSettings
        /\ sources = <<>> /\ scenes = <<>> /\ sceneItem = NoItem
        /\ ~engine.previewDisplay /\ ~engine.signalsConnected
        /\ ~statsTimer
        /\ ~obsInitialized
        /\ thrown = ClaimedMessage(engine.initResult[1])

\* C8: when OBS_API_initAPI returns a nonzero code, initialization is aborted,
\* the engine is shut down (the signal callback is removed and the IPC
\* connection is disconnected) and the error is thrown
C8_InitFailureShutsEngineDown ==
    InitFailed =>
        /\ InitFailureAborts
        /\ engine.callbackRemovals = 1
        /\ engine.ipcDisconnects = 1

\* ---- the body middleware
BodyRoutes == {"/connect", "/disconnect", "/openRecentShow"}
Responded(i) == \E k \in 1..Len(opens) : opens[k].request = i /\ opens[k].responded
HandlerFailsCleanly(i) ==
    requests[i].route \in BodyRoutes /\ requests[i].threw =>
        /\ requests[i].after = requests[i].before
        /\ ~requests[i].success
        /\ ~Responded(i)

\* what does hold: an empty body parses to null and the request reaches its
\* handler; a handler that throws on the null body leaves the list as it was
\* and sends no {success: true}
EmptyBodyIsTolerated ==
    \A i \in 1..Len(requests) :
        requests[i].data = EmptyText =>
            /\ requests[i].body = Null
            /\ requests[i].reached
            /\ HandlerFailsCleanly(i)

\* C11: a request with a malformed or empty JSON body passes the body-parsing
\* step (the body parses to null and the request reaches its route handler);
\* when the /connect, /disconnect or /openRecentShow handler then fails on the
\* null body, the connected-device list is unchanged and no {success: true}
\* is sent.
C11_MalformedBodyIsTolerated ==
    \A i \in 1..Len(requests) :
        requests[i].data \in {EmptyText, MalformedText} =>
            /\ requests[i].body = Null
            /\ requests[i].reached
            /\ HandlerFailsCleanly(i)

\* ---- /openRecentShow
OpenRequests == {i \in 1..Len(requests) : requests[i].route = "/openRecentShow"}
OpensOf(i) == {k \in 1..Len(opens) : opens[k].request = i}

\* C12: for /openRecentShow, {success: true} is sent only after the show-open
\* operation has completed successfully: nothing is sent when the request is
\* handled or while the open is pending, and once the open has failed (or the
\* request never got as far as calling it) no success response is sent for
\* that request in any later state.  Each request starts at most one open, and
\* requests handled while an open is pending do not settle it.
C12_SuccessOnlyAfterOpenCompletes ==
    /\ [](\A i \in OpenRequests :
            /\ ~requests[i].success
            /\ Cardinality(OpensOf(i)) =
                   IF requests[i].reached /\ ~requests[i].threw THEN 1 ELSE 0
            /\ \A k \in OpensOf(i) :
                   /\ opens[k].responded => opens[k].state = "fulfilled"
                   /\ opens[k].state \in {"pending", "rejected"} => ~opens[k].responded)
    /\ [](\A k \in 1..Len(opens) : opens[k].request \in OpenRequests)
    /\ [][\A k \in 1..Len(opens) :
            /\ opens[k].state = "rejected" =>
                   opens'[k].state = "rejected" /\ ~opens'[k].responded
            /\ requests' # requests => opens'[k] = opens[k]]_vars

\* one open was fulfilled and answered; another is still pending, without an
\* answer, while a later /connect has been handled and answered
C12_Witness ==
    \E k1, k2 \in 1..Len(opens) :
        /\ opens[k1].state = "fulfilled" /\ opens[k1].responded
        /\ opens[k2].state = "pending" /\ ~opens[k2].responded
        /\ \E j \in 1..Len(requests) :
               /\ j > opens[k2].request
               /\ requests[j].route = "/connect"
               /\ requests[j].success

\* ---- square canvas
Square == canvas.width = canvas.height

\* C13: on a square canvas (width = height) alignItem leaves the item's
\* position as it was before the call, whatever it was, and still sets the
\* scale on both axes (to the value its formula gives for the canvas side and
\* the item's native width); the item's source is untouched.
C13_SquareCanvasKeepsPosition ==
    alignCall.done /\ Square =>
        /\ sceneItem.position = alignCall.before.position
        /\ sceneItem.scale.x = FloorScaleTimes100(canvas.width, alignCall.before.source.width)
        /\ sceneItem.scale.y = sceneItem.scale.x
        /\ sceneItem.source = alignCall.before.source

\* a 5 x 3 item at (7, 3) on a 23 x 23 canvas: still at (7, 3), its scale
\* changed from 1 to 4.59
C13_Witness ==
    /\ alignCall.done
    /\ canvas = [width |-> 23, height |-> 23]
    /\ alignCall.before.source = [width |-> 5, height |-> 3]
    /\ alignCall.before.position = [x |-> 1400, y |-> 600]
    /\ alignCall.before.scale = [x |-> 100, y |-> 100]
    /\ sceneItem.position = [x |-> 1400, y |-> 600]
    /\ sceneItem.scale = [x |-> 459, y |-> 459]

\* ---- the steps of addFile
CallsWithSource(id) == {j \in SuccessfulCalls : addCalls[j].source = id}
CallsWithScene(id) == {j \in SuccessfulCalls : addCalls[j].scene = id}
ScenesWithId(id) == {i \in 1..Len(scenes) : scenes[i].id = id}

\* C14: each successful addFile call makes, in this order, one source with an
\* identifier no other source has, one scene with an identifier no other scene
\* has, the attachment of that source to that scene, and exactly one delayed
\* transition, which targets that call's scene; a transition only starts for
\* a scene that exists with its source attached, and never more transitions
\* have started than addFile calls have succeeded.
C14_AddFileStepsInOrder ==
    /\ \A j \in SuccessfulCalls :
           LET c == addCalls[j]
           IN  /\ Len(c.calls) = 4
               /\ c.calls[1] = [op |-> "InputFactory.create", source |-> c.source, scene |-> <<>>]
               /\ c.calls[2] = [op |-> "SceneFactory.create", source |-> <<>>, scene |-> c.scene]
               /\ c.calls[3] = [op |-> "scene.add", source |-> c.source, scene |-> c.scene]
               /\ c.calls[4] = [op |-> "setTimeout", source |-> <<>>, scene |-> c.scene]
               /\ Cardinality(SourcesWithId(c.source)) = 1
               /\ Cardinality(ScenesWithId(c.scene)) = 1
               /\ CallsWithSource(c.source) = {j}
               /\ CallsWithScene(c.scene) = {j}
               /\ \A i \in ScenesWithId(c.scene) : scenes[i].items = <<c.source>>
               /\ Cardinality({k \in 1..Len(started) : started[k] = c.scene})
                    + Cardinality({k \in 1..Len(timers) : timers[k] = c.scene}) = 1
    /\ \A k \in 1..Len(started) :
           /\ CallsWithScene(started[k]) # {}
           /\ \E i \in ScenesWithId(started[k]) : scenes[i].items # <<>>
    /\ \A k \in 1..Len(timers) : CallsWithScene(timers[k]) # {}
    /\ Len(started) <= Cardinality(SuccessfulCalls)

\* two files of the same kind added one after the other; the first file's
\* transition has started, the second's is still to come
C14_Witness ==
    /\ Len(addCalls) = 2
    /\ addCalls[1].result = "source" /\ addCalls[2].result = "source"
    /\ addCalls[1].source[1] = addCalls[2].source[1]
    /\ addCalls[1].source # addCalls[2].source
    /\ started = <<addCalls[1].scene>>
    /\ timers = <<addCalls[2].scene>>

\* ---- MobileService.init
\* C15: MobileService.init starts at most one HTTP server per service
\* instance: however many times init() is called, and however the calls
\* interleave with the "listening" callback that sets expressRunning,
\* express() is called at most once and listen(4574) is called at most once.
C15_AtMostOneServer ==
    /\ http.servers <= 1
    /\ http.listens <= 1

\* what does hold: once expressRunning is set, init starts nothing more; and
\* only the first listen gets the port
InitIsIdempotentOnceListening ==
    /\ [][expressRunning => http'.servers = http.servers /\ http'.listens = http.listens]_vars
    /\ [](http.servers = http.listens)
    /\ [](http.refused = IF http.listens = 0 THEN 0 ELSE http.listens - 1)

\* ---- shutdown
ShutdownsThat(results) ==
    {n \in 1..Len(shutdownCalls) : shutdownCalls[n].result \in results}
EngineCallsMade(c) ==
    <<c.after.engine.callbackRemovals - c.before.engine.callbackRemovals,
      c.after.engine.ipcDisconnects - c.before.engine.ipcDisconnects>>
\* the four steps of initialize have left their marks
InitializeCompleted ==
    /\ pc = "running"
    /\ engine.ipcHosted /\ engine.initResult = <<0>>
    /\ OldValue(obsSettings["Output"], "Mode") = JsString("Simple")
    /\ OldValue(obsSettings["Output"], "RecFormat") = JsString("mkv")
    /\ OldValue(obsSettings["Video"], "Base") =
           JsString(ToString(canvas.width) \o "x" \o ToString(canvas.height))
    /\ \E i \in 1..Len(scenes) : scenes[i].id = <<LOGO_SCENE_ID>>
    /\ alignCall.done
    /\ engine.previewDisplay
GuardedReturn(c) ==
    ~c.before.obsInitialized =>
        /\ c.result = "false"
        /\ c.after = c.before
FullShutdown(c) ==
    /\ c.result = "true"
    /\ EngineCallsMade(c) = <<1, 1>>
    /\ ~c.after.engine.signalsConnected
    /\ ~c.after.obsInitialized
    /\ ~c.after.previewWindow

\* C16 (as amended): shutdown called while obsInitialized is false returns
\* false, makes no engine call and closes no window.  Called while it is true,
\* and with both engine calls returning, it removes the signal callback,
\* disconnects IPC, clears obsInitialized, closes the projector window if there
\* is one and returns true; when an engine call throws, shutdown throws,
\* obsInitialized stays true and the window stays as it was.  So at most one
\* call returns true, after it obsInitialized is false, and when no call has
\* thrown the engine has been disconnected exactly once by any nonempty
\* sequence of calls.  obsInitialized is true only after initOBS,
\* configureOBS, setupSources and setupPreview have all completed.
C16_ShutdownIsGuarded ==
    /\ \A n \in 1..Len(shutdownCalls) :
           LET c == shutdownCalls[n]
           IN  /\ GuardedReturn(c)
               /\ c.before.obsInitialized /\ c.fault = "none" => FullShutdown(c)
               /\ c.before.obsInitialized /\ c.fault # "none" =>
                      /\ c.result = "throws"
                      /\ c.after.obsInitialized
                      /\ c.after.previewWindow = c.before.previewWindow
                      /\ EngineCallsMade(c) \in {<<1, 0>>, <<1, 1>>}
    /\ Cardinality(ShutdownsThat({"true"})) <= 1
    /\ ShutdownsThat({"true"}) # {} => ~obsInitialized
    /\ shutdownCalls # <<>> /\ ShutdownsThat({"throws"}) = {} =>
           engine.ipcDisconnects = 1 /\ engine.callbackRemovals = 1
    /\ obsInitialized => InitializeCompleted

\* the projector window is open; the first shutdown returns true and closes
\* it, the second finds obsInitialized false and returns false
C16_Witness ==
    /\ Len(shutdownCalls) = 2
    /\ shutdownCalls[1].before.obsInitialized
    /\ shutdownCalls[1].before.previewWindow
    /\ shutdownCalls[1].result = "true"
    /\ ~shutdownCalls[1].after.previewWindow
    /\ shutdownCalls[2].result = "false"
    /\ engine.ipcDisconnects = 1

\* C16 as stated: every call that finds obsInitialized true shuts down fully
\* and returns true, and any nonempty sequence of calls disconnects the engine
\* exactly once
C16_AsStated ==
    /\ \A n \in 1..Len(shutdownCalls) :
           /\ GuardedReturn(shutdownCalls[n])
           /\ shutdownCalls[n].before.obsInitialized => FullShutdown(shutdownCalls[n])
    /\ shutdownCalls # <<>> => engine.ipcDisconnects = 1
    /\ obsInitialized => InitializeCompleted

====
